---- MODULE Spec2Model ----
(***************************************************************************)
(* scripts/vote_study.py: the paginated fetch of the completed debates,    *)
(* the aggregation loop of main() and the report it builds.                *)
(*                                                                         *)
(* JSON objects are records whose fields are optional values: a key that   *)
(* is absent (or null) is the empty tuple, a key holding x is <<x>>.       *)
(* Dictionaries that the code iterates (category_stats, voter_stats) are   *)
(* kept as sequences of entries in insertion order, as Python dicts are.   *)
(***************************************************************************)
EXTENDS Integers, Sequences, FiniteSets, TLC

VARIABLES
    \* fetch_all_completed_debates
    debates, offset, fpc, requests, pages,
    \* main
    debates_list, i, pc,
    challenger_wins, opponent_wins, category_stats, voter_stats,
    debates_with_votes, debates_analyzed, result,
    \* observation of main: the external calls made, and what each list
    \* element turned out to be
    calls, history

fetchVars == <<debates, offset, fpc, requests, pages>>
tallyVars == <<challenger_wins, opponent_wins, category_stats, voter_stats,
               debates_with_votes, debates_analyzed>>
mainVars  == <<debates_list, i, pc, tallyVars, result, calls, history>>
vars      == <<fetchVars, mainVars>>

-----------------------------------------------------------------------------
(* Bounds of the model *)

MaxPages == 3
MaxDebates == 3
MaxCatDebates == 7
MaxVoteDebates == 5

-----------------------------------------------------------------------------
(* Optional values and Python truthiness *)

None == <<>>

Some(x) == <<x>>

\* dict.get(key, default)
Get(o, default) == IF Len(o) = 0 THEN default ELSE o[1]

\* bool(x) of an optional string: None and "" are falsy
Truthy(o) == Len(o) > 0 /\ o[1] # ""

\* a or b
OrElse(a, b) == IF Truthy(a) THEN a ELSE b

-----------------------------------------------------------------------------
(* fetch_all_completed_debates *)

limit == 200

\* the page the server returns for a request at offset off: n summaries,
\* here numbered by their position in the server's collection
Batch(off, n) == [k \in 1..n |-> off + k]

RECURSIVE Concat(_)
Concat(ps) == IF ps = <<>> THEN <<>> ELSE Concat(SubSeq(ps, 1, Len(ps) - 1)) \o ps[Len(ps)]

\* the loop exit test: len(batch) < limit
LastPageMutant(batch) == Len(batch) <= limit

LastPage(batch) == Len(batch) < limit

FetchInit ==
    /\ debates = <<>>
    /\ offset = 0
    /\ fpc = "loop"
    /\ requests = <<>>
    /\ pages = <<>>

\* one iteration of the while loop whose request succeeds
FetchPage ==
    /\ fpc = "loop"
    /\ Len(requests) < MaxPages
    /\ \E n \in 0..(limit + 1) :
         LET batch == Batch(offset, n) IN
           /\ requests' = Append(requests, offset)
           /\ pages' = Append(pages, batch)
           /\ debates' = debates \o batch
           /\ IF LastPage(batch)
                THEN fpc' = "returned" /\ offset' = offset
                ELSE fpc' = "loop" /\ offset' = offset + limit
    /\ UNCHANGED mainVars

\* requests.get or raise_for_status raises: the exception leaves the function
FetchPageRaises ==
    /\ fpc = "loop"
    /\ Len(requests) < MaxPages
    /\ requests' = Append(requests, offset)
    /\ fpc' = "raised"
    /\ UNCHANGED <<debates, offset, pages>>
    /\ UNCHANGED mainVars

-----------------------------------------------------------------------------
(* The data the server returns to main() *)

\* a debate summary of the list: {"slug": ..., "id": ...}
Summary(slug, id) == [slug |-> slug, id |-> id]

\* one record of votes.details: {"voter": {"name": ...}, "side": ...}
Vote(name, side) == [voter |-> Some([name |-> Some(name)]), side |-> Some(side)]

\* a debate detail: {"category": ..., "votes": {"total", "challenger", "opponent", "details"}}
Detail(cat, total, ch, op, details) ==
    [category |-> cat,
     votes |-> Some([total |-> total, challenger |-> ch, opponent |-> op,
                     details |-> details])]

NoVotes == [total |-> None, challenger |-> None, opponent |-> None, details |-> None]

\* a summary that has only an id, and one that has neither slug nor id
Summaries == {Summary(None, Some("n")), Summary(None, None)}

ChOp == {<<3, 1>>, <<0, 2>>, <<1, 1>>}

\* vote records in agreement with the counts; the tied debate also carries a
\* record with an unrecognized side, one without a side and one without a voter
VotesOf(p) ==
    IF p = <<3, 1>>
      THEN <<Vote("v1", "challenger"), Vote("v2", "challenger"),
             [voter |-> Some([name |-> None]), side |-> Some("challenger")],
             Vote("v3", "opponent")>>
    ELSE IF p = <<0, 2>>
      THEN <<Vote("v1", "opponent"), Vote("v2", "opponent")>>
    ELSE <<Vote("v1", "challenger"), [voter |-> None, side |-> Some("opponent")],
           Vote("v2", "abstain"), [voter |-> Some([name |-> Some("v3")]), side |-> None]>>

CountedDetails ==
    {Detail(c, Some(p[1] + p[2]), Some(p[1]), Some(p[2]), Some(VotesOf(p))) :
        c \in {None, Some("A"), Some("B")}, p \in ChOp}

\* details whose total is 0 or missing, with non-zero counts and valid records
ZeroDetails ==
    {[category |-> Some("A"), votes |-> None],
     Detail(Some("A"), Some(0), Some(3), Some(1), Some(VotesOf(<<3, 1>>))),
     Detail(Some("B"), None, Some(0), Some(2), Some(VotesOf(<<0, 2>>)))}

Details == CountedDetails \cup ZeroDetails

\* inputs of the category study: three categories, every outcome, no records
CatDetails ==
    {Detail(Some(c), Some(p[1] + p[2]), Some(p[1]), Some(p[2]), None) :
        c \in {"A", "B", "C"}, p \in ChOp}
    \cup {Detail(Some("A"), Some(0), Some(1), Some(0), None)}

\* inputs of the voter study: one category, two records per debate
VoteRecords ==
    {Vote("v1", "challenger"), Vote("v1", "opponent"), Vote("v2", "challenger"),
     Vote("v1", "tie")}

VoteDetails ==
    {Detail(Some("A"), Some(2), Some(2), Some(0), Some(<<a, b>>)) :
        a \in VoteRecords, b \in VoteRecords}
    \cup {Detail(Some("A"), Some(0), Some(2), Some(0), Some(<<Vote("v1", "challenger")>>))}

RECURSIVE SeqsUpTo(_, _)
SeqsUpTo(S, n) ==
    IF n = 0 THEN {<<>>}
    ELSE LET shorter == SeqsUpTo(S, n - 1) IN
           shorter \cup {Append(q, x) : q \in {r \in shorter : Len(r) = n - 1}, x \in S}

-----------------------------------------------------------------------------
(* The tallies of main() *)

\* lambda: {"challenger": 0, "opponent": 0, "total": 0}
ZeroStats(key) == [name |-> key, challenger |-> 0, opponent |-> 0, total |-> 0]

Keys(stats) == {stats[k].name : k \in DOMAIN stats}

\* defaultdict lookup: a missing key is inserted, last, with the default
Touch(stats, key) == IF key \in Keys(stats) THEN stats ELSE Append(stats, ZeroStats(key))

\* stats[key][field] += 1
Incr(stats, key, field) ==
    LET s == Touch(stats, key) IN
      [k \in DOMAIN s |-> IF s[k].name = key THEN [s[k] EXCEPT ![field] = @ + 1] ELSE s[k]]

Entry(stats, key) == stats[CHOOSE k \in DOMAIN stats : stats[k].name = key]

\* slug = d.get("slug") or d.get("id")
SlugOf(d) == OrElse(d.slug, d.id)

\* votes = detail.get("votes", {})
VotesField(detail) == Get(detail.votes, NoVotes)

\* total_votes = votes.get("total", 0)
TotalVotesMutant(detail) ==
    LET v == VotesField(detail) IN
      Get(v.total, Get(v.challenger, 0) + Get(v.opponent, 0))

TotalVotes(detail) == Get(VotesField(detail).total, 0)

ChVotes(detail) == Get(VotesField(detail).challenger, 0)

OpVotes(detail) == Get(VotesField(detail).opponent, 0)

\* cat = detail.get("category") or "Other"
CategoryOf(detail) == OrElse(detail.category, Some("Other"))[1]

WinnerMutant(ch, op) ==
    IF ch >= op THEN "challenger" ELSE "opponent"

Winner(ch, op) ==
    IF ch > op THEN "challenger"
    ELSE IF op > ch THEN "opponent"
    ELSE "tie"

UpdateCategoryMutant(stats, cat, winner_side) ==
    IF winner_side = "challenger" THEN Incr(Incr(stats, cat, "challenger"), cat, "total")
    ELSE IF winner_side = "opponent" THEN Incr(Incr(stats, cat, "opponent"), cat, "total")
    ELSE stats

UpdateCategory(stats, cat, winner_side) ==
    LET s == IF winner_side = "challenger" THEN Incr(stats, cat, "challenger")
             ELSE IF winner_side = "opponent" THEN Incr(stats, cat, "opponent")
             ELSE stats
    IN Incr(s, cat, "total")

VoterName(v) == Get(Get(v.voter, [name |-> None]).name, "unknown")

Side(v) == Get(v.side, "")

\* the body of "for v in vote_details"
CountVote(stats, v) ==
    IF Side(v) \in {"challenger", "opponent"}
      THEN Incr(Incr(stats, VoterName(v), Side(v)), VoterName(v), "total")
      ELSE stats

RECURSIVE CountVotes(_, _)
CountVotes(stats, vote_details) ==
    IF vote_details = <<>> THEN stats
    ELSE CountVotes(CountVote(stats, Head(vote_details)), Tail(vote_details))

VoteDetailsOf(detail) == Get(VotesField(detail).details, <<>>)

-----------------------------------------------------------------------------
(* The report of main() *)

\* round(num / den * 100): Python rounds a float to the nearest integer, a
\* half to the even one.  num / den * 100 in binary64 rounds as the exact
\* quotient does for every den below 40 (23/40*100 is the first that differs).
PyRoundPctMutant(num, den) == (100 * num) \div den + 1

PyRoundPct(num, den) ==
    LET q == (100 * num) \div den
        r == (100 * num) % den
    IN IF 2 * r < den THEN q
       ELSE IF 2 * r > den THEN q + 1
       ELSE IF q % 2 = 0 THEN q ELSE q + 1

\* where a stable descending sort puts x in an already sorted list: after
\* every element whose key is not smaller
InsertDesc(sorted, x, field) ==
    LET n == Cardinality({k \in DOMAIN sorted : sorted[k][field] >= x[field]}) IN
      SubSeq(sorted, 1, n) \o <<x>> \o SubSeq(sorted, n + 1, Len(sorted))

\* sorted(seq, key=lambda x: x[field], reverse=True); list.sort likewise
RECURSIVE SortedDesc(_, _)
SortedDesc(seq, field) ==
    IF seq = <<>> THEN <<>>
    ELSE InsertDesc(SortedDesc(SubSeq(seq, 1, Len(seq) - 1), field), seq[Len(seq)], field)

CategoryEntry(stats) ==
    [name |-> stats.name,
     challengerWins |-> stats.challenger,
     opponentWins |-> stats.opponent,
     total |-> stats.total,
     challengerPct |-> IF stats.total > 0 THEN PyRoundPct(stats.challenger, stats.total) ELSE 0]

BuildCategories(stats) ==
    LET Listed(s) == s.total # 0
        kept == SelectSeq(SortedDesc(stats, "total"), Listed)
    IN [k \in DOMAIN kept |-> CategoryEntry(kept[k])]

\* key=lambda c: abs(c["challengerPct"] - 50)
Deviation(c) == IF c.challengerPct >= 50 THEN c.challengerPct - 50 ELSE 50 - c.challengerPct

CatsWithEnoughBound == 3

CatsWithEnough(categories) ==
    LET Enough(c) == c.total >= CatsWithEnoughBound IN SelectSeq(categories, Enough)

\* max(seq, key=Deviation): the first of the largest
RECURSIVE MaxByDeviationMutant(_, _)
MaxByDeviationMutant(best, rest) ==
    IF rest = <<>> THEN best
    ELSE MaxByDeviationMutant(IF Deviation(Head(rest)) >= Deviation(best) THEN Head(rest) ELSE best,
                              Tail(rest))

RECURSIVE MaxByDeviation(_, _)
MaxByDeviation(best, rest) ==
    IF rest = <<>> THEN best
    ELSE MaxByDeviation(IF Deviation(Head(rest)) > Deviation(best) THEN Head(rest) ELSE best,
                        Tail(rest))

\* min(seq, key=Deviation): the first of the smallest
RECURSIVE MinByDeviation(_, _)
MinByDeviation(best, rest) ==
    IF rest = <<>> THEN best
    ELSE MinByDeviation(IF Deviation(Head(rest)) < Deviation(best) THEN Head(rest) ELSE best,
                        Tail(rest))

MostUnbalanced(categories) ==
    LET enough == CatsWithEnough(categories) IN
      IF enough = <<>> THEN None ELSE Some(MaxByDeviation(Head(enough), Tail(enough)))

MostBalanced(categories) ==
    LET enough == CatsWithEnough(categories) IN
      IF enough = <<>> THEN None ELSE Some(MinByDeviation(Head(enough), Tail(enough)))

VoterEntry(stats) ==
    [name |-> stats.name,
     challenger |-> stats.challenger,
     opponent |-> stats.opponent,
     total |-> stats.total,
     challengerPct |-> PyRoundPct(stats.challenger, stats.total)]

BuildVoters(stats) ==
    LET Listed(s) == s.total # 0
        kept == SelectSeq(stats, Listed)
    IN SortedDesc([k \in DOMAIN kept |-> VoterEntry(kept[k])], "challengerPct")

OverallPctMutant(wins, losses) ==
    IF wins + losses > 0 THEN PyRoundPct(wins, wins + losses) ELSE 50

\* round(challenger_wins / total_decided * 100) if total_decided > 0 else 0
OverallPct(wins, losses) ==
    IF wins + losses > 0 THEN PyRoundPct(wins, wins + losses) ELSE 0

ActiveBound == 5

HighBiasBound == 70

BalancedLow == 45

BalancedHigh == 55

ActiveVoters(voters) ==
    LET Active(v) == v.total >= ActiveBound IN SelectSeq(voters, Active)

HighBiasMutant(voters) ==
    LET High(v) == v.total >= ActiveBound /\ v.challengerPct > HighBiasBound IN SelectSeq(voters, High)

HighBias(voters) ==
    LET High(v) == v.total >= ActiveBound /\ v.challengerPct >= HighBiasBound IN SelectSeq(voters, High)

Balanced(voters) ==
    LET Bal(v) == /\ v.total >= ActiveBound
                  /\ BalancedLow <= v.challengerPct
                  /\ v.challengerPct <= BalancedHigh
    IN SelectSeq(voters, Bal)

Pcts(voters) == {voters[k].challengerPct : k \in DOMAIN voters}

MinOf(S) == CHOOSE x \in S : \A y \in S : x <= y

MaxOf(S) == CHOOSE x \in S : \A y \in S : x >= y

\* f"{min(...)}-{max(...)}%" if high_bias else "N/A"
HighBiasRange(high_bias) ==
    IF high_bias = <<>> THEN "N/A"
    ELSE ToString(MinOf(Pcts(high_bias))) \o "-" \o ToString(MaxOf(Pcts(high_bias))) \o "%"

\* the dictionary printed by main() for tallies t and a list of n debates;
\* "generated", the time of the run, is left out
BuildResult(t, n) ==
    LET categories == BuildCategories(t.category_stats)
        voters == BuildVoters(t.voter_stats)
    IN [totalDebates |-> n,
        debatesWithVotes |-> t.debates_with_votes,
        overallChallengerWins |-> t.challenger_wins,
        overallOpponentWins |-> t.opponent_wins,
        overallChallengerPct |-> OverallPct(t.challenger_wins, t.opponent_wins),
        categories |-> categories,
        mostUnbalanced |-> MostUnbalanced(categories),
        mostBalanced |-> MostBalanced(categories),
        voters |-> voters,
        voterSummary |-> [totalActiveVoters |-> Len(ActiveVoters(voters)),
                          highBiasCount |-> Len(HighBias(voters)),
                          balancedCount |-> Len(Balanced(voters)),
                          highBiasRange |-> HighBiasRange(HighBias(voters))]]

-----------------------------------------------------------------------------
(* main() *)

Tallies ==
    [challenger_wins |-> challenger_wins,
     opponent_wins |-> opponent_wins,
     category_stats |-> category_stats,
     voter_stats |-> voter_stats,
     debates_with_votes |-> debates_with_votes,
     debates_analyzed |-> debates_analyzed]

NoTallies ==
    [challenger_wins |-> 0,
     opponent_wins |-> 0,
     category_stats |-> <<>>,
     voter_stats |-> <<>>,
     debates_with_votes |-> 0,
     debates_analyzed |-> 0]

\* what the loop body does to the tallies once the detail is fetched
LoopBody(t, detail) ==
    IF TotalVotes(detail) = 0 THEN t
    ELSE LET winner_side == Winner(ChVotes(detail), OpVotes(detail)) IN
      [challenger_wins |-> t.challenger_wins + (IF winner_side = "challenger" THEN 1 ELSE 0),
       opponent_wins |-> t.opponent_wins + (IF winner_side = "opponent" THEN 1 ELSE 0),
       category_stats |-> UpdateCategory(t.category_stats, CategoryOf(detail), winner_side),
       voter_stats |-> CountVotes(t.voter_stats, VoteDetailsOf(detail)),
       debates_with_votes |-> t.debates_with_votes + 1,
       debates_analyzed |-> t.debates_analyzed + 1]

SetTallies(t) ==
    /\ challenger_wins' = t.challenger_wins
    /\ opponent_wins' = t.opponent_wins
    /\ category_stats' = t.category_stats
    /\ voter_stats' = t.voter_stats
    /\ debates_with_votes' = t.debates_with_votes
    /\ debates_analyzed' = t.debates_analyzed

Call(op) == [op |-> op, at |-> i + 1]

\* the observation of one iteration: rec says whether every iteration is
\* kept ("all"), only the latest ("last"), or none
Observe(rec, made, kind, detail) ==
    LET entry == [kind |-> kind, detail |-> detail] IN
      /\ calls' = IF rec = "all" THEN calls \o made
                  ELSE IF rec = "last" THEN made ELSE calls
      /\ history' = IF rec = "all" THEN Append(history, entry)
                    ELSE IF rec = "last" THEN <<entry>> ELSE history

\* the state of main() when the loop starts, for a fetched list among lists
MainInit(lists) ==
    /\ debates_list \in lists
    /\ i = 0
    /\ pc = "loop"
    /\ challenger_wins = 0
    /\ opponent_wins = 0
    /\ category_stats = <<>>
    /\ voter_stats = <<>>
    /\ debates_with_votes = 0
    /\ debates_analyzed = 0
    /\ result = None
    /\ calls = <<>>
    /\ history = <<>>
    /\ debates = debates_list
    /\ offset = 0
    /\ fpc = "returned"
    /\ requests = <<0>>
    /\ pages = <<debates_list>>

InLoop == pc = "loop" /\ i < Len(debates_list)

\* an element with neither slug nor id: continue
SkipNoSlug(rec) ==
    /\ InLoop
    /\ ~Truthy(SlugOf(debates_list[i + 1]))
    /\ i' = i + 1
    /\ Observe(rec, <<>>, "noslug", None)
    /\ UNCHANGED <<debates_list, pc, tallyVars, result, fetchVars>>

FetchFailsMutant(rec) ==
    /\ InLoop
    /\ Truthy(SlugOf(debates_list[i + 1]))
    /\ i' = i + 1
    /\ Observe(rec, <<Call("fetch")>>, "error", None)
    /\ debates_with_votes' = debates_with_votes + 1
    /\ UNCHANGED <<debates_list, pc, challenger_wins, opponent_wins, category_stats,
                   voter_stats, debates_analyzed, result, fetchVars>>

\* fetch_debate_detail raises: the except clause, continue
FetchFails(rec) ==
    /\ InLoop
    /\ Truthy(SlugOf(debates_list[i + 1]))
    /\ i' = i + 1
    /\ Observe(rec, <<Call("fetch")>>, "error", None)
    /\ UNCHANGED <<debates_list, pc, tallyVars, result, fetchVars>>

\* the detail is fetched and its total is 0: continue
SkipZeroVotes(Dom, rec) ==
    /\ InLoop
    /\ Truthy(SlugOf(debates_list[i + 1]))
    /\ \E detail \in Dom :
         /\ TotalVotes(detail) = 0
         /\ SetTallies(LoopBody(Tallies, detail))
         /\ Observe(rec, <<Call("fetch")>>, "ok", Some(detail))
    /\ i' = i + 1
    /\ UNCHANGED <<debates_list, pc, result, fetchVars>>

\* the detail is fetched and counted; the iteration ends with time.sleep
Aggregate(Dom, rec) ==
    /\ InLoop
    /\ Truthy(SlugOf(debates_list[i + 1]))
    /\ \E detail \in Dom :
         /\ TotalVotes(detail) # 0
         /\ SetTallies(LoopBody(Tallies, detail))
         /\ Observe(rec, <<Call("fetch"), Call("sleep")>>, "ok", Some(detail))
    /\ i' = i + 1
    /\ UNCHANGED <<debates_list, pc, result, fetchVars>>

\* after the loop: the report is built and printed
Report ==
    /\ pc = "loop"
    /\ i = Len(debates_list)
    /\ result' = Some(BuildResult(Tallies, Len(debates_list)))
    /\ pc' = "done"
    /\ UNCHANGED <<debates_list, i, tallyVars, calls, history, fetchVars>>

-----------------------------------------------------------------------------
(* Specifications *)

\* main() over every list of at most MaxDebates summaries
Init == MainInit(SeqsUpTo(Summaries, MaxDebates))

Next ==
    \/ SkipNoSlug("all")
    \/ FetchFails("all")
    \/ SkipZeroVotes(Details, "all")
    \/ Aggregate(Details, "all")
    \/ Report

Spec == Init /\ [][Next]_vars

\* main() over longer lists of debates that differ in category and outcome
CatInit == MainInit(SeqsUpTo({Summary(Some("s"), Some("n"))}, MaxCatDebates))

CatNext ==
    \/ FetchFails("none")
    \/ SkipZeroVotes(CatDetails, "none")
    \/ Aggregate(CatDetails, "none")
    \/ Report

SpecCats == CatInit /\ [][CatNext]_vars

\* main() over longer lists of debates that differ in their vote records
VoteInit == MainInit(SeqsUpTo({Summary(Some("s"), None)}, MaxVoteDebates))

VoteNext ==
    \/ FetchFails("last")
    \/ SkipZeroVotes(VoteDetails, "last")
    \/ Aggregate(VoteDetails, "last")
    \/ Report

SpecVoters == VoteInit /\ [][VoteNext]_vars

\* fetch_all_completed_debates alone, main() waiting for its return
PagesInit ==
    /\ FetchInit
    /\ debates_list = <<>>
    /\ i = 0
    /\ pc = "fetching"
    /\ challenger_wins = 0
    /\ opponent_wins = 0
    /\ category_stats = <<>>
    /\ voter_stats = <<>>
    /\ debates_with_votes = 0
    /\ debates_analyzed = 0
    /\ result = None
    /\ calls = <<>>
    /\ history = <<>>

PagesNext == FetchPage \/ FetchPageRaises

SpecPages == PagesInit /\ [][PagesNext]_vars

-----------------------------------------------------------------------------
(* What the properties read off the observed iterations, field by field *)

RawVotes(detail) == IF detail.votes = None THEN NoVotes ELSE detail.votes[1]

RawTotal(detail) == IF RawVotes(detail).total = None THEN 0 ELSE RawVotes(detail).total[1]

RawCh(detail) == IF RawVotes(detail).challenger = None THEN 0 ELSE RawVotes(detail).challenger[1]

RawOp(detail) == IF RawVotes(detail).opponent = None THEN 0 ELSE RawVotes(detail).opponent[1]

RawCat(detail) == IF detail.category \in {None, Some("")} THEN "Other" ELSE detail.category[1]

RawRecords(detail) == IF RawVotes(detail).details = None THEN <<>> ELSE RawVotes(detail).details[1]

\* the iterations whose detail was fetched, and those of them that count
Fetched == {k \in DOMAIN history : history[k].kind = "ok"}

Failed == {k \in DOMAIN history : history[k].kind = "error"}

Counted == {k \in Fetched : RawTotal(history[k].detail[1]) # 0}

Zeroed == {k \in Fetched : RawTotal(history[k].detail[1]) = 0}

Tied == {k \in Counted : RawCh(history[k].detail[1]) = RawOp(history[k].detail[1])}

InCat(c) == {k \in Counted : RawCat(history[k].detail[1]) = c}

ChWon(K) == {k \in K : RawCh(history[k].detail[1]) > RawOp(history[k].detail[1])}

OpWon(K) == {k \in K : RawOp(history[k].detail[1]) > RawCh(history[k].detail[1])}

FetchCalls == {k \in DOMAIN calls : calls[k].op = "fetch"}

SleepCalls == {k \in DOMAIN calls : calls[k].op = "sleep"}

Report0 == result[1]

-----------------------------------------------------------------------------
(* Properties *)

\* C1: after any prefix of the list, and in the report, the decided debates
\* are at most the debates with votes, and exactly those that are not tied.
C1_DecidedPlusTies ==
    /\ challenger_wins + opponent_wins <= debates_with_votes
    /\ challenger_wins + opponent_wins = debates_with_votes - Cardinality(Tied)
    /\ pc = "done" =>
         /\ Report0.overallChallengerWins + Report0.overallOpponentWins
              <= Report0.debatesWithVotes
         /\ Report0.overallChallengerWins + Report0.overallOpponentWins
              = Report0.debatesWithVotes - Cardinality(Tied)

C1_Witness ==
    /\ pc = "done"
    /\ Cardinality(Tied) >= 1
    /\ challenger_wins >= 1
    /\ opponent_wins >= 1

\* C2: the iteration of a debate whose total is 0 or missing leaves every
\* tally as it was, whatever its counts and vote records are.
C2_ZeroTotalChangesNothing ==
    [][(/\ Len(history') = Len(history) + 1
        /\ history'[Len(history')].kind = "ok"
        /\ RawTotal(history'[Len(history')].detail[1]) = 0)
       => UNCHANGED tallyVars]_vars

C2_Witness ==
    \E k \in Zeroed :
        /\ RawCh(history[k].detail[1]) + RawOp(history[k].detail[1]) > 0
        /\ \E r \in DOMAIN RawRecords(history[k].detail[1]) :
               RawRecords(history[k].detail[1])[r].side \in {Some("challenger"), Some("opponent")}
        /\ \E j \in Counted : j < k
        /\ RawVotes(history[k].detail[1]).total = None

\* the details that were fetched, in order: the list without its failures
RECURSIVE FetchedDetails(_)
FetchedDetails(h) ==
    IF h = <<>> THEN <<>>
    ELSE (IF Head(h).kind = "ok" THEN <<Head(h).detail[1]>> ELSE <<>>) \o FetchedDetails(Tail(h))

\* the tallies of a run in which every fetch succeeds with these details
RECURSIVE RunOver(_, _)
RunOver(t, details) ==
    IF details = <<>> THEN t ELSE RunOver(LoopBody(t, Head(details)), Tail(details))

\* C3: a failed fetch is caught; the debate changes no tally and is fetched
\* once only, the loop goes on to the later debates and to the report, and the
\* tallies and the report are those of the list without the failed debates,
\* but for totalDebates.
C3_FailedFetchSkipped ==
    /\ Tallies = RunOver(NoTallies, FetchedDetails(history))
    /\ \A a, b \in FetchCalls : calls[a].at = calls[b].at => a = b
    /\ \A k \in Failed : \E a \in FetchCalls : calls[a].at = k
    /\ Len(history) = i
    /\ i <= Len(debates_list)
    /\ Failed # {} => pc \in {"loop", "done"}
    /\ pc = "done" <=> result # None
    /\ pc = "done" =>
         /\ i = Len(debates_list)
         /\ \A k \in DOMAIN debates_list :
                (debates_list[k].slug # None \/ debates_list[k].id # None)
                    => \E a \in FetchCalls : calls[a].at = k
         /\ result = Some(BuildResult(RunOver(NoTallies, FetchedDetails(history)),
                                      Len(debates_list)))

C3_Witness ==
    /\ pc = "done"
    /\ \E k \in Failed : \E j \in Counted : k < j
    /\ Len(debates_list) > Len(FetchedDetails(history))

\* C4: the requests go to offsets 0, limit, 2*limit, ...; every page before
\* the last one is full, the function returns right after the first page
\* shorter than limit and requests nothing more, and the list is the pages
\* joined in the order they were requested.
C4_Pagination ==
    /\ \A k \in DOMAIN requests : requests[k] = (k - 1) * limit
    /\ Len(requests) \in {Len(pages), Len(pages) + 1}
    /\ \A k \in DOMAIN pages : k < Len(pages) => Len(pages[k]) >= limit
    /\ fpc = "returned" <=> (pages # <<>> /\ Len(pages[Len(pages)]) < limit)
    /\ fpc = "returned" => Len(requests) = Len(pages)
    /\ fpc = "loop" => Len(requests) = Len(pages)
    /\ debates = Concat(pages)

C4_Witness ==
    /\ fpc = "returned"
    /\ requests = <<0, limit>>
    /\ Len(pages[1]) = limit
    /\ pages[2] = <<>>
    /\ Len(debates) = limit

\* C5: between any two consecutive detail fetches the delay occurs.
C5_DelayBetweenFetches ==
    \A a, b \in FetchCalls :
        a < b => \E c \in SleepCalls : a < c /\ c < b

\* the categories a fetched debate can count for
CatNames == {"A", "B", "Other"}

ListedCats == {Report0.categories[k].name : k \in DOMAIN Report0.categories}

CatListed(c) == Report0.categories[CHOOSE k \in DOMAIN Report0.categories :
                                        Report0.categories[k].name = c]

ExampleDebates ==
    /\ Len(history) = 3
    /\ Counted = {1, 2, 3}
    /\ <<RawCh(history[1].detail[1]), RawOp(history[1].detail[1]), RawCat(history[1].detail[1])>>
         = <<3, 1, "A">>
    /\ <<RawCh(history[2].detail[1]), RawOp(history[2].detail[1]), RawCat(history[2].detail[1])>>
         = <<0, 2, "A">>
    /\ <<RawCh(history[3].detail[1]), RawOp(history[3].detail[1]), RawCat(history[3].detail[1])>>
         = <<1, 1, "B">>

\* C6: the tally and the reported entry of a category count the fetched
\* debates of that category with a non-zero total, and among them those the
\* challenger won and those the opponent won; a tie adds to total only.  The
\* debates (3,1,A), (0,2,A), (1,1,B) give A = 1/1/2/50 and B = 0/0/1/0.
C6_CategoryTallies ==
    /\ Keys(category_stats) = {c \in CatNames : InCat(c) # {}}
    /\ \A c \in Keys(category_stats) :
         /\ Entry(category_stats, c).total = Cardinality(InCat(c))
         /\ Entry(category_stats, c).challenger = Cardinality(ChWon(InCat(c)))
         /\ Entry(category_stats, c).opponent = Cardinality(OpWon(InCat(c)))
         /\ Entry(category_stats, c).total
              = Entry(category_stats, c).challenger + Entry(category_stats, c).opponent
                  + Cardinality(Tied \cap InCat(c))
    /\ pc = "done" =>
         /\ ListedCats = {c \in CatNames : InCat(c) # {}}
         /\ Len(Report0.categories) = Cardinality(ListedCats)
         /\ \A c \in ListedCats :
              /\ CatListed(c).total = Cardinality(InCat(c))
              /\ CatListed(c).challengerWins = Cardinality(ChWon(InCat(c)))
              /\ CatListed(c).opponentWins = Cardinality(OpWon(InCat(c)))
         /\ ExampleDebates =>
              Report0.categories =
                <<[name |-> "A", challengerWins |-> 1, opponentWins |-> 1, total |-> 2,
                   challengerPct |-> 50],
                  [name |-> "B", challengerWins |-> 0, opponentWins |-> 0, total |-> 1,
                   challengerPct |-> 0]>>

C6_Witness == pc = "done" /\ ExampleDebates

\* C7: challengerPct of every listed category and voter is an integer from 0
\* to 100, and no entry with total 0 is listed or kept in a tally.
C7_PctRange ==
    /\ \A k \in DOMAIN category_stats : category_stats[k].total > 0
    /\ \A k \in DOMAIN voter_stats : voter_stats[k].total > 0
    /\ pc = "done" =>
         /\ \A k \in DOMAIN Report0.categories :
              /\ Report0.categories[k].challengerPct \in 0..100
              /\ Report0.categories[k].total > 0
         /\ \A k \in DOMAIN Report0.voters :
              /\ Report0.voters[k].challengerPct \in 0..100
              /\ Report0.voters[k].total > 0
         /\ Len(Report0.categories) = Len(category_stats)
         /\ Len(Report0.voters) = Len(voter_stats)

C7_Witness ==
    /\ pc = "done"
    /\ \E k \in DOMAIN Report0.categories : Report0.categories[k].challengerPct = 100
    /\ \E k \in DOMAIN Report0.categories : Report0.categories[k].challengerPct = 0
    /\ \E k \in DOMAIN Report0.voters : Report0.voters[k].challengerPct \notin {0, 50, 100}

\* C8: with no completed debate no detail is fetched and the report is still
\* built, every count 0, both lists empty, both extremes null and the range
\* "N/A"; and overallChallengerPct is 0 whenever no debate was decided.
C8_EmptyReport ==
    /\ debates_list = <<>> => calls = <<>> /\ history = <<>>
    /\ pc = "done" <=> result # None
    /\ (pc = "done" /\ debates_list = <<>>) =>
         Report0 = [totalDebates |-> 0,
                    debatesWithVotes |-> 0,
                    overallChallengerWins |-> 0,
                    overallOpponentWins |-> 0,
                    overallChallengerPct |-> 0,
                    categories |-> <<>>,
                    mostUnbalanced |-> None,
                    mostBalanced |-> None,
                    voters |-> <<>>,
                    voterSummary |-> [totalActiveVoters |-> 0,
                                      highBiasCount |-> 0,
                                      balancedCount |-> 0,
                                      highBiasRange |-> "N/A"]]
    /\ (pc = "done" /\ Cardinality(ChWon(Counted)) + Cardinality(OpWon(Counted)) = 0) =>
         Report0.overallChallengerPct = 0

C8_Witness == pc = "done" /\ debates_list = <<>>

\* the place of a category in category_stats: the order of first appearance
Pos(c) == CHOOSE k \in DOMAIN category_stats : category_stats[k].name = c

Enough == {k \in DOMAIN Report0.categories : Report0.categories[k].total >= 3}

Dev(k) ==
    LET d == Report0.categories[k].challengerPct - 50 IN IF d < 0 THEN -d ELSE d

FirstMostDeviating ==
    CHOOSE k \in Enough :
        /\ \A m \in Enough : Dev(m) <= Dev(k)
        /\ \A m \in Enough : m < k => Dev(m) < Dev(k)

FirstLeastDeviating ==
    CHOOSE k \in Enough :
        /\ \A m \in Enough : Dev(m) >= Dev(k)
        /\ \A m \in Enough : m < k => Dev(m) > Dev(k)

VoterNames == {"v1", "v2", "unknown"}

RawName(r) ==
    IF r.voter = None THEN "unknown"
    ELSE IF r.voter[1].name = None THEN "unknown" ELSE r.voter[1].name[1]

\* voter n's count under field f, 0 while n has no entry
VoterCount(stats, n, f) == IF n \in Keys(stats) THEN Entry(stats, n)[f] ELSE 0

\* the records of the fetched detail that name voter n and a side among sides
RecordsOf(detail, n, sides) ==
    {r \in DOMAIN RawRecords(detail) :
        /\ RawName(RawRecords(detail)[r]) = n
        /\ RawRecords(detail)[r].side \in {Some(x) : x \in sides}}

VoterListed(n) ==
    \E k \in DOMAIN Report0.voters :
        Report0.voters[k] = [name |-> n,
                             challenger |-> VoterCount(voter_stats, n, "challenger"),
                             opponent |-> VoterCount(voter_stats, n, "opponent"),
                             total |-> VoterCount(voter_stats, n, "total"),
                             challengerPct |-> Report0.voters[k].challengerPct]

ActiveListed == {k \in DOMAIN Report0.voters : Report0.voters[k].total >= 5}

\* C10: in the iteration of a counted debate each record whose side is
\* "challenger" or "opponent" adds one to that voter's side and total, any
\* other record and any other iteration add nothing; the report counts the
\* voters with total >= 5, those of them at 70% or more and those from 45% to
\* 55%; a voter with 7 challenger and 3 opponent votes is listed with total 10
\* and 70% and counts as high-bias.
C10_VoterTallies ==
    /\ [][i' = i + 1 =>
            LET e == history'[Len(history')]
                counts == e.kind = "ok" /\ RawTotal(e.detail[1]) # 0
            IN \A n \in VoterNames :
                 /\ VoterCount(voter_stats', n, "challenger")
                      = VoterCount(voter_stats, n, "challenger")
                        + (IF counts THEN Cardinality(RecordsOf(e.detail[1], n, {"challenger"}))
                           ELSE 0)
                 /\ VoterCount(voter_stats', n, "opponent")
                      = VoterCount(voter_stats, n, "opponent")
                        + (IF counts THEN Cardinality(RecordsOf(e.detail[1], n, {"opponent"}))
                           ELSE 0)
                 /\ VoterCount(voter_stats', n, "total")
                      = VoterCount(voter_stats, n, "total")
                        + (IF counts
                             THEN Cardinality(RecordsOf(e.detail[1], n, {"challenger", "opponent"}))
                           ELSE 0)]_vars
    /\ [](pc = "done" =>
            /\ Len(Report0.voters) = Len(voter_stats)
            /\ \A n \in Keys(voter_stats) : VoterListed(n)
            /\ Report0.voterSummary.totalActiveVoters = Cardinality(ActiveListed)
            /\ Report0.voterSummary.highBiasCount
                 = Cardinality({k \in ActiveListed : Report0.voters[k].challengerPct >= 70})
            /\ Report0.voterSummary.balancedCount
                 = Cardinality({k \in ActiveListed :
                                  /\ 45 <= Report0.voters[k].challengerPct
                                  /\ Report0.voters[k].challengerPct <= 55})
            /\ \A k \in DOMAIN Report0.voters :
                 (Report0.voters[k].challenger = 7 /\ Report0.voters[k].opponent = 3) =>
                   /\ Report0.voters[k].total = 10
                   /\ Report0.voters[k].challengerPct = 70
                   /\ Report0.voterSummary.highBiasCount >= 1)

C10_Witness ==
    /\ pc = "done"
    /\ \E k \in DOMAIN Report0.voters :
         Report0.voters[k].challenger = 7 /\ Report0.voters[k].opponent = 3
    /\ Report0.voterSummary.highBiasCount = 1

====
